---- MODULE Spec2Model ----
(***************************************************************************)
(* A model of app.py: a one-table scheduler of posts.  The durable state   *)
(* is the scheduled_tweets table; the volatile state is the APScheduler    *)
(* job map, the worker threads running post_tweet_job, scheduler_lock and  *)
(* the HTTP requests in flight.                                            *)
(*                                                                         *)
(* Time is counted in seconds.  app.py carries lines 190-194 of schedule()  *)
(* at column 0, so the file as it stands raises IndentationError when it   *)
(* is compiled and no process starts: ShippedSpec.  Every other            *)
(* specification reads those lines at the indentation of schedule().       *)
(*                                                                         *)
(* The job map is APScheduler's (3.x, BackgroundScheduler with its         *)
(* defaults, which app.py does not override): a 'date' job is due when its *)
(* run_date has come, it is removed from the map when it is processed, a   *)
(* run found later than misfire_grace_time (1 s) is dropped, and a run for *)
(* a job id that is still executing is dropped (max_instances = 1).        *)
(*                                                                         *)
(* Spec is the whole program: two requests in flight, the timers, the      *)
(* worker runs with the failures of the provider and of the store, crash   *)
(* and restart.  The properties are checked under specifications that      *)
(* start from the states the program can be in: ServeSpec and RecoverSpec *)
(* take every step of Next, ExecSpec, LoadSpec, RaceSpec, FormSpec and     *)
(* LiveSpec the steps of the part of the program they are about.           *)
(***************************************************************************)
EXTENDS Integers, Sequences, FiniteSets, TLC

(* ---- bounds of the model ---- *)
MaxRec == 2
MaxTime == 1
MaxSched == 2
MaxCrash == 1
MaxReq == 2
MaxFault == 1

(* ---- program constants ---- *)
PastDueDelay == 5
MisfireGrace == 1
MinuteSecs == 60

VARIABLES up, now, db, jobs, exec, lock, req, crashes, published, armfailed

vars == <<up, now, db, jobs, exec, lock, req, crashes, published, armfailed>>

Ids == 1..MaxRec
Reqs == 1..MaxReq
Times == 0..MaxTime
SchedTimes == 0..MaxSched

NULL == <<>>
Some(v) == <<v>>

Texts == {"hello"}
ProviderIds == {"999"}
Errors == {"boom"}
Offsets == {-1, 0, 1}
Terminal == {"posted", "failed", "cancelled"}

EmptyMap == [x \in {} |-> 0]

(* ---- the record store ---- *)

\* The row an INSERT INTO scheduled_tweets (text, scheduled_utc, status) makes.
NewRow(text, safe_time) ==
    [text |-> text, scheduled_utc |-> safe_time, status |-> "scheduled",
     posted_at |-> NULL, twitter_id |-> NULL, error |-> NULL]

\* SELECT * FROM scheduled_tweets WHERE id = ? ; fetchone() gives None for no row.
HasRow(id) == id \in 1..Len(db)

\* UPDATE ... SET status='posted', posted_at=?, twitter_id=? WHERE id=?
PostedRow(row, t, tid) ==
    [row EXCEPT !.status = "posted", !.posted_at = Some(t), !.twitter_id = Some(tid)]

\* UPDATE ... SET status='failed', posted_at=?, error=? WHERE id=?
FailedRow(row, t, err) ==
    [row EXCEPT !.status = "failed", !.posted_at = Some(t), !.error = Some(err)]

\* UPDATE ... SET status='cancelled' WHERE id = ?
CancelledRow(row) == [row EXCEPT !.status = "cancelled"]

\* Mutant: the SELECT without its WHERE clause.
ScheduledIds_AllRows == 1..Len(db)

\* SELECT ... WHERE status = 'scheduled'
ScheduledIds == {id \in 1..Len(db) : db[id].status = "scheduled"}

(* ---- time conversion ---- *)

\* Mutant: the offset added instead of subtracted.
ToUtc_Plus(local, off) == [t |-> local + off * MinuteSecs, tz |-> "UTC"]

\* utc_dt = dt_local + timedelta(minutes=-tz_offset_min), tagged UTC.
ToUtc(local, off) == [t |-> local - off * MinuteSecs, tz |-> "UTC"]

\* utc_dt.isoformat().replace("T", " ").split("+")[0]: the zone suffix is cut off.
SafeTime(dt) == dt.t

\* datetime.fromisoformat(row["scheduled_utc"]), a naive value made UTC.
StoredTime(s) == [t |-> s, tz |-> "UTC"]

(* ---- worker and request records ---- *)

NoExec == [pc |-> "none", res |-> NULL, ret |-> "none"]
NoTime == [t |-> 0, tz |-> "UTC"]
IdleReq == [pc |-> "idle", id |-> 0, dt |-> NoTime, flash |-> "none"]
\* flash(message) followed by return redirect(url_for("index"))
DoneReq(id, flash) == [pc |-> "done", id |-> id, dt |-> NoTime, flash |-> flash]
\* An exception leaves the handler: nothing is flashed, the answer is an
\* error response.
RaisedReq(id) == [pc |-> "done", id |-> id, dt |-> NoTime, flash |-> "none"]

Init ==
    /\ up = TRUE
    /\ now = 0
    /\ db = <<>>
    /\ jobs = EmptyMap
    /\ exec = [id \in Ids |-> NoExec]
    /\ lock = 0
    /\ req = [r \in Reqs |-> IdleReq]
    /\ crashes = 0
    /\ published = [id \in Ids |-> 0]
    /\ armfailed = {}

(* ---- the scheduler's job map ---- *)

\* scheduler.add_job(..., run_date=run_time_utc, id=..., replace_existing=True)
schedule_job(m, id, run_time_utc) ==
    [x \in (DOMAIN m) \cup {id} |-> IF x = id THEN run_time_utc.t ELSE m[x]]

\* Mutant: remove_job that removes nothing.
unschedule_job_Keeps(m, id) == m

\* scheduler.remove_job(job_id), a missing job's error swallowed
unschedule_job(m, id) == [x \in (DOMAIN m) \ {id} |-> m[x]]

\* Mutant: the past-due delay forgotten.
LoadRunTime_NoDelay(scheduled_time, t) == scheduled_time

\* run_time = scheduled_time if scheduled_time > now else now + timedelta(seconds=5)
LoadRunTime(scheduled_time, t) ==
    IF scheduled_time.t > t THEN scheduled_time
    ELSE [t |-> t + PastDueDelay, tz |-> "UTC"]

\* The first of the rows in ORDER BY scheduled_utc (ties in rowid order).
FirstRow(ids) ==
    CHOOSE x \in ids : \A y \in ids :
        \/ db[x].scheduled_utc < db[y].scheduled_utc
        \/ db[x].scheduled_utc = db[y].scheduled_utc /\ x <= y

\* Mutant: a start that loads nothing.
load_and_schedule_all_Nothing(m, t, fail) == m

\* The loop of load_and_schedule_all over the selected rows, `t` its utcnow().
\* `fail` holds the ids for which schedule_job raises: lines 137-140 print
\* the error and go on with the next row.
RECURSIVE LoadRows(_, _, _, _)
LoadRows(ids, m, t, fail) ==
    IF ids = {} THEN m
    ELSE LET id == FirstRow(ids)
             scheduled_time == StoredTime(db[id].scheduled_utc)
         IN  LoadRows(ids \ {id},
                      IF id \in fail THEN m
                      ELSE schedule_job(m, id, LoadRunTime(scheduled_time, t)),
                      t, fail)

load_and_schedule_all(m, t, fail) == LoadRows(ScheduledIds, m, t, fail)

(* ---- the clock ---- *)

\* Mutant: every job is taken as due.
Due_Always(id) == TRUE

\* A 'date' job is due when its run_date has come.
Due(id) == jobs[id] <= now

\* A second passes.  The scheduler thread wakes at a job's run_date, so the
\* clock does not pass a due job of a running process before it is processed.
\* The clock is followed up to MaxTime and, past it, for as long as a timer
\* of the running process is still to come.
Tick ==
    /\ now < MaxTime \/ (up /\ \E id \in DOMAIN jobs : jobs[id] > now)
    /\ up => \A id \in DOMAIN jobs : ~Due(id)
    /\ now' = now + 1
    /\ UNCHANGED <<up, db, jobs, exec, lock, req, crashes, published, armfailed>>

(* ---- the timer path ---- *)

\* The run of a due job is dropped when it is late beyond the grace time or
\* when a run of the same job id is still executing.
RunDropped(id) == now - jobs[id] > MisfireGrace \/ exec[id].pc # "none"

\* The scheduler processes due job `id`: a 'date' job has no next run and is
\* removed; its lambda, post_tweet_job(id), is handed to a worker thread.
Fire(id) ==
    /\ up
    /\ id \in DOMAIN jobs
    /\ Due(id)
    /\ jobs' = unschedule_job(jobs, id)
    /\ exec' = IF RunDropped(id) THEN exec
               ELSE [exec EXCEPT ![id] = [pc |-> "wait", res |-> NULL, ret |-> "none"]]
    /\ UNCHANGED <<up, now, db, lock, req, crashes, published, armfailed>>

\* post_tweet_job's status check: "don't re-post".
MayPost(id) == HasRow(id) /\ db[id].status = "scheduled"

\* Mutant: post_tweet_job without scheduler_lock.
LockFree_Always == TRUE

\* with scheduler_lock: free to be taken.
LockFree == lock = 0

\* post_tweet_job, lines 69-84: take scheduler_lock, read the row, return when
\* there is none or its status is not 'scheduled'.
ExecRead(id) ==
    /\ up
    /\ exec[id].pc = "wait"
    /\ LockFree
    /\ IF MayPost(id)
       THEN /\ exec' = [exec EXCEPT ![id].pc = "publish"]
            /\ lock' = id
       ELSE /\ exec' = [exec EXCEPT ![id] = [pc |-> "none", res |-> NULL, ret |-> "noop"]]
            /\ lock' = 0
    /\ UNCHANGED <<up, now, db, jobs, req, crashes, published, armfailed>>

\* What lines 86-88 can do: get_tweepy_api() raises and api.update_status
\* is not called; api.update_status is called and returns a status with an
\* id; it is called and raises.
PublishOutcomes ==
    {[ok |-> TRUE, val |-> i, called |-> TRUE] : i \in ProviderIds}
    \cup {[ok |-> FALSE, val |-> e, called |-> c] : e \in Errors, c \in BOOLEAN}

\* post_tweet_job, lines 86-88: the publish call.  `published` counts the
\* calls of api.update_status.
ExecPublish(id) ==
    /\ up
    /\ exec[id].pc = "publish"
    /\ \E o \in PublishOutcomes :
          /\ exec' = [exec EXCEPT ![id].pc = "write", ![id].res = Some(o)]
          /\ published' = [published EXCEPT ![id] = IF o.called THEN @ + 1 ELSE @]
    /\ UNCHANGED <<up, now, db, jobs, lock, req, crashes, armfailed>>

\* The row post_tweet_job's UPDATE leaves, for the publish outcome `o` at time `t`.
OutcomeRow(row, o, t) ==
    IF o.ok THEN PostedRow(row, t, o.val) ELSE FailedRow(row, t, o.val)

StoreErrors == {"database is locked"}
WriteFaults == {"execute", "commit", "both"}
StoreFaults == {"none"} \cup WriteFaults

\* post_tweet_job, lines 89-101: write the outcome, commit, leave the lock.
\* `fault` is what the store does.  "none": the UPDATE and its commit
\* succeed.  After a publish that returned, "execute" is the UPDATE of line 90
\* raising and "commit" its commit raising (the UPDATE stays in the open
\* transaction): the except branch writes 'failed' with the store's message
\* and commits; with "both" that write raises too.  After a publish that
\* raised, any fault is the except branch's write raising.  An exception
\* that leaves post_tweet_job writes nothing (finally: db.close()).
\* The store fails only while the record has at most MaxFault publish calls.
ExecWrite(id, fault) ==
    /\ up
    /\ exec[id].pc = "write"
    /\ fault # "none" => published[id] <= MaxFault
    /\ LET o == exec[id].res[1] IN
       IF fault = "none"
       THEN /\ db' = [db EXCEPT ![id] = OutcomeRow(db[id], o, now)]
            /\ exec' = [exec EXCEPT ![id] = [pc |-> "none", res |-> NULL,
                                             ret |-> IF o.ok THEN "posted" ELSE "failed"]]
       ELSE IF o.ok /\ fault # "both"
       THEN \E msg \in StoreErrors :
               /\ db' = [db EXCEPT ![id] =
                            FailedRow(IF fault = "commit" THEN PostedRow(@, now, o.val) ELSE @,
                                      now, msg)]
               /\ exec' = [exec EXCEPT ![id] = [pc |-> "none", res |-> NULL, ret |-> "failed"]]
       ELSE /\ db' = db
            /\ exec' = [exec EXCEPT ![id] = [pc |-> "none", res |-> NULL, ret |-> "raised"]]
    /\ lock' = 0
    /\ UNCHANGED <<up, now, jobs, req, crashes, published, armfailed>>

(* ---- the request path ---- *)

FlashRequired == "Both tweet text and date/time required."
FlashInvalid == "Invalid date/time format."
FlashScheduled == "Tweet scheduled successfully!"
FlashNotFound == "Not found"
FlashCannotCancel == "Cannot cancel - already posted or failed."
FlashCancelled == "Cancelled scheduled tweet."

\* The form's local_datetime: absent, not ISO, or a local time of day.
LocalInputs ==
    {[kind |-> "missing", t |-> 0], [kind |-> "garbage", t |-> 0]}
    \cup {[kind |-> "iso", t |-> t + off * MinuteSecs] : t \in SchedTimes, off \in Offsets}

\* The form's tz_offset_min: absent, not the text of an integer, or an integer.
OffsetInputs ==
    {[kind |-> "missing", n |-> 0], [kind |-> "garbage", n |-> 0]}
    \cup {[kind |-> "int", n |-> n] : n \in Offsets}

\* int(request.form.get("tz_offset_min", "0")), line 169: ValueError for a
\* value that is not the text of an integer.
OffsetRaises(off) == off.kind = "garbage"
TzOffsetMin(off) == IF off.kind = "missing" THEN 0 ELSE off.n

\* request.form.get("text", "").strip()
Strip(text) == IF text = " " THEN "" ELSE text

\* Mutant: only the text is validated.
CreateRejected_TextOnly(text, local) ==
    IF text = "" THEN FlashRequired ELSE "none"

\* schedule(), lines 166-179: the two validation failures.
CreateRejected(text, local) ==
    IF text = "" \/ local.kind = "missing" THEN FlashRequired
    ELSE IF local.kind # "iso" THEN FlashInvalid
    ELSE "none"

\* schedule(), lines 166-198: read the form, validate, convert, INSERT and
\* commit.  The offset is parsed before the validations.
CreateInsert(r, text, local, off) ==
    /\ up
    /\ req[r].pc = "idle"
    /\ IF OffsetRaises(off)
       THEN /\ req' = [req EXCEPT ![r] = RaisedReq(0)]
            /\ db' = db
       ELSE IF CreateRejected(Strip(text), local) # "none"
       THEN /\ req' = [req EXCEPT ![r] = DoneReq(0, CreateRejected(Strip(text), local))]
            /\ db' = db
       ELSE LET utc_dt == ToUtc(local.t, TzOffsetMin(off)) IN
            /\ Len(db) < MaxRec
            /\ utc_dt.t \in SchedTimes
            /\ db' = Append(db, NewRow(Strip(text), SafeTime(utc_dt)))
            /\ req' = [req EXCEPT ![r] = [pc |-> "arm", id |-> Len(db) + 1,
                                          dt |-> utc_dt, flash |-> "none"]]
    /\ UNCHANGED <<up, now, jobs, exec, lock, crashes, published, armfailed>>

\* schedule(), lines 199-207: schedule_job(scheduled_id, utc_dt).
CreateArm(r) ==
    /\ up
    /\ req[r].pc = "arm"
    /\ jobs' = schedule_job(jobs, req[r].id, req[r].dt)
    /\ req' = [req EXCEPT ![r] = DoneReq(req[r].id, FlashScheduled)]
    /\ UNCHANGED <<up, now, db, exec, lock, crashes, published, armfailed>>

FlashDelayed ==
    "Scheduled but couldn't schedule background job; it will be scheduled on app restart."

\* schedule(), lines 200-204: schedule_job raises, the error is printed and
\* the handler goes on.  `armfailed` holds the ids so printed.
CreateArmFail(r) ==
    /\ up
    /\ req[r].pc = "arm"
    /\ req' = [req EXCEPT ![r] = DoneReq(req[r].id, FlashDelayed)]
    /\ armfailed' = armfailed \cup {req[r].id}
    /\ UNCHANGED <<up, now, db, jobs, exec, lock, crashes, published>>

\* cancel()'s status check.
Cancellable(id) == db[id].status = "scheduled"

\* A fetch on get_db()'s connection, which is opened with PARSE_DECLTYPES
\* (line 30): sqlite3's timestamp converter is applied to the non-NULL values
\* of the TIMESTAMP columns.  It splits the value at a space: scheduled_utc,
\* written as safe_time (line 191), converts; posted_at, written as
\* now.isoformat() with a "T" (lines 91, 97), raises ValueError.
Fetchable(row) == row.posted_at = NULL

\* cancel(), lines 211-220: read the row, reject an unknown or non-scheduled
\* one; the fetch of a row with posted_at set raises.
CancelRead(r, tid) ==
    /\ up
    /\ req[r].pc = "idle"
    /\ req' = [req EXCEPT ![r] =
                 IF ~HasRow(tid) THEN DoneReq(tid, FlashNotFound)
                 ELSE IF ~Fetchable(db[tid]) THEN RaisedReq(tid)
                 ELSE IF ~Cancellable(tid) THEN DoneReq(tid, FlashCannotCancel)
                 ELSE [pc |-> "write", id |-> tid, dt |-> NoTime, flash |-> "none"]]
    /\ UNCHANGED <<up, now, db, jobs, exec, lock, crashes, published, armfailed>>

\* Mutant: the UPDATE of cancel() without its WHERE clause.
CancelWrite_NoWhere(r) ==
    /\ up
    /\ req[r].pc = "write"
    /\ db' = [id \in 1..Len(db) |-> CancelledRow(db[id])]
    /\ req' = [req EXCEPT ![r].pc = "unschedule"]
    /\ UNCHANGED <<up, now, jobs, exec, lock, crashes, published, armfailed>>

\* cancel(), lines 221-222: UPDATE ... SET status='cancelled' and commit.
CancelWrite(r) ==
    /\ up
    /\ req[r].pc = "write"
    /\ db' = [db EXCEPT ![req[r].id] = CancelledRow(@)]
    /\ req' = [req EXCEPT ![r].pc = "unschedule"]
    /\ UNCHANGED <<up, now, jobs, exec, lock, crashes, published, armfailed>>

\* cancel(), lines 223-225: unschedule_job(tid).
CancelUnschedule(r) ==
    /\ up
    /\ req[r].pc = "unschedule"
    /\ jobs' = unschedule_job(jobs, req[r].id)
    /\ req' = [req EXCEPT ![r] = DoneReq(req[r].id, FlashCancelled)]
    /\ UNCHANGED <<up, now, db, exec, lock, crashes, published, armfailed>>

\* The response is sent and the request is over.
Respond(r) ==
    /\ up
    /\ req[r].pc = "done"
    /\ req' = [req EXCEPT ![r] = IdleReq]
    /\ UNCHANGED <<up, now, db, jobs, exec, lock, crashes, published, armfailed>>

(* ---- crash and restart ---- *)

\* The process dies: only the table survives.
Crash ==
    /\ up
    /\ crashes < MaxCrash
    /\ up' = FALSE
    /\ crashes' = crashes + 1
    /\ jobs' = EmptyMap
    /\ exec' = [id \in Ids |-> NoExec]
    /\ lock' = 0
    /\ req' = [r \in Reqs |-> IdleReq]
    /\ UNCHANGED <<now, db, published, armfailed>>

\* Startup, lines 232-241: scheduler.start() and load_and_schedule_all(),
\* in which schedule_job raises for the ids of `fail`.
Start(fail) ==
    /\ ~up
    /\ fail \subseteq ScheduledIds
    /\ up' = TRUE
    /\ jobs' = load_and_schedule_all(EmptyMap, now, fail)
    /\ UNCHANGED <<now, db, exec, lock, req, crashes, published, armfailed>>

FormTexts == Texts \cup {"", " "}

Next ==
    \/ Tick
    \/ \E id \in Ids : Fire(id)
    \/ \E id \in Ids : ExecRead(id)
    \/ \E id \in Ids : ExecPublish(id)
    \/ \E id \in Ids, fault \in StoreFaults : ExecWrite(id, fault)
    \/ \E r \in Reqs, text \in FormTexts, local \in LocalInputs, off \in OffsetInputs :
          CreateInsert(r, text, local, off)
    \/ \E r \in Reqs : CreateArm(r)
    \/ \E r \in Reqs : CreateArmFail(r)
    \/ \E r \in Reqs, tid \in Ids : CancelRead(r, tid)
    \/ \E r \in Reqs : CancelWrite(r)
    \/ \E r \in Reqs : CancelUnschedule(r)
    \/ \E r \in Reqs : Respond(r)
    \/ Crash
    \/ \E fail \in SUBSET Ids : Start(fail)

Spec == Init /\ [][Next]_vars

(* ---- post_tweet_job called directly ---- *)

\* Rows in each status as the handlers leave them, delivered on time.
SeedRowsAt(times) ==
    LET fresh == {NewRow(text, s) : text \in Texts, s \in times} IN
    fresh
    \cup {PostedRow(row, row.scheduled_utc, i) : row \in fresh, i \in ProviderIds}
    \cup {FailedRow(row, row.scheduled_utc, e) : row \in fresh, e \in Errors}
    \cup {CancelledRow(row) : row \in fresh}

SeedRows == SeedRowsAt(SchedTimes)

\* Tables of up to MaxRec rows.
SeedDbs == UNION {[1..n -> SeedRows] : n \in 0..MaxRec}

\* A running process with a table of any content and nothing in flight.
InitExec ==
    /\ up = TRUE
    /\ now = MaxTime
    /\ db \in SeedDbs
    /\ jobs = EmptyMap
    /\ exec = [id \in Ids |-> NoExec]
    /\ lock = 0
    /\ req = [r \in Reqs |-> IdleReq]
    /\ crashes = 0
    /\ published = [id \in Ids |-> 0]
    /\ armfailed = {}

\* post_tweet_job(id) is called once the previous call for that id has
\* returned or raised.
DirectCall(id) ==
    /\ up
    /\ exec[id].pc = "none"
    /\ exec' = [exec EXCEPT ![id] = [pc |-> "wait", res |-> NULL, ret |-> "none"]]
    /\ UNCHANGED <<up, now, db, jobs, lock, req, crashes, published, armfailed>>

NextExec ==
    \/ \E id \in Ids : DirectCall(id)
    \/ \E id \in Ids : ExecRead(id)
    \/ \E id \in Ids : ExecPublish(id)
    \/ \E id \in Ids, fault \in StoreFaults : ExecWrite(id, fault)

ExecSpec == InitExec /\ [][NextExec]_vars

(* ---- starts of the process on a table of any content ---- *)

\* The process is down, the table holds anything, the clock shows any time.
InitLoad ==
    /\ up = FALSE
    /\ now \in Times
    /\ db \in SeedDbs
    /\ jobs = EmptyMap
    /\ exec = [id \in Ids |-> NoExec]
    /\ lock = 0
    /\ req = [r \in Reqs |-> IdleReq]
    /\ crashes = 0
    /\ published = [id \in Ids |-> 0]
    /\ armfailed = {}

\* The process without its requests: starts, crashes, the clock, the timers
\* and the runs of post_tweet_job.
NextLoad ==
    \/ \E fail \in SUBSET Ids : Start(fail)
    \/ Crash
    \/ Tick
    \/ \E id \in Ids : Fire(id)
    \/ \E id \in Ids : ExecRead(id)
    \/ \E id \in Ids : ExecPublish(id)
    \/ \E id \in Ids, fault \in StoreFaults : ExecWrite(id, fault)

LoadSpec == InitLoad /\ [][NextLoad]_vars

(* ---- requests against firing timers, on a table of any content ---- *)

\* The process started at time 0 on a table of past-due rows in any status;
\* the timers its load armed, all or some, are due now.
InitRace ==
    /\ up = TRUE
    /\ now = PastDueDelay
    /\ db \in UNION {[1..n -> SeedRowsAt({0})] : n \in 0..MaxRec}
    /\ \E fail \in SUBSET ScheduledIds : jobs = load_and_schedule_all(EmptyMap, 0, fail)
    /\ exec = [id \in Ids |-> NoExec]
    /\ lock = 0
    /\ req = [r \in Reqs |-> IdleReq]
    /\ crashes = 0
    /\ published = [id \in Ids |-> 0]
    /\ armfailed = {}

\* Cancel requests, the due timers and the runs of post_tweet_job.
NextRace ==
    \/ \E id \in Ids : Fire(id)
    \/ \E id \in Ids : ExecRead(id)
    \/ \E id \in Ids : ExecPublish(id)
    \/ \E id \in Ids, fault \in StoreFaults : ExecWrite(id, fault)
    \/ \E r \in Reqs, tid \in Ids : CancelRead(r, tid)
    \/ \E r \in Reqs : CancelWrite(r)
    \/ \E r \in Reqs : CancelUnschedule(r)
    \/ \E r \in Reqs : Respond(r)

RaceSpec == InitRace /\ [][NextRace]_vars

\* The request handlers alone.
NextForm ==
    \/ \E r \in Reqs, text \in FormTexts, local \in LocalInputs, off \in OffsetInputs :
          CreateInsert(r, text, local, off)
    \/ \E r \in Reqs : CreateArm(r)
    \/ \E r \in Reqs : CreateArmFail(r)
    \/ \E r \in Reqs, tid \in Ids : CancelRead(r, tid)
    \/ \E r \in Reqs : CancelWrite(r)
    \/ \E r \in Reqs : CancelUnschedule(r)
    \/ \E r \in Reqs : Respond(r)

FormSpec == InitRace /\ [][NextForm]_vars

(* ---- the whole program after a start on one record ---- *)

\* The process started at time 0 on a table of one past-due row in any
\* status, with room for one more record; the timer its load armed, when
\* the row is scheduled and schedule_job did not raise, is due now.
InitServe ==
    /\ InitRace
    /\ Len(db) = MaxRec - 1

\* Every step of the program: the clock, the requests, the timers, the runs
\* of post_tweet_job, crashes and starts.
ServeSpec == InitServe /\ [][Next]_vars

(* ---- the whole program from time 0 ---- *)

\* The process started at time 0 on a table of one settled row, with room
\* for one more record: no timer is pending and the clock is at its start.
InitTimer ==
    /\ up = TRUE
    /\ now = 0
    /\ db \in [1..(MaxRec - 1) -> {row \in SeedRowsAt({0}) : row.status # "scheduled"}]
    /\ jobs = load_and_schedule_all(EmptyMap, 0, {})
    /\ exec = [id \in Ids |-> NoExec]
    /\ lock = 0
    /\ req = [r \in Reqs |-> IdleReq]
    /\ crashes = 0
    /\ published = [id \in Ids |-> 0]
    /\ armfailed = {}

\* Every step of the program, the record created on this table being due
\* after, at or before the time of its create.
TimerSpec == InitTimer /\ [][Next]_vars

(* ---- app.py as it stands ---- *)

\* The module cannot be compiled (IndentationError, line 197): no process
\* is up, no request is served, the table is never created.
InitShipped ==
    /\ up = FALSE
    /\ now = 0
    /\ db = <<>>
    /\ jobs = EmptyMap
    /\ exec = [id \in Ids |-> NoExec]
    /\ lock = 0
    /\ req = [r \in Reqs |-> IdleReq]
    /\ crashes = 0
    /\ published = [id \in Ids |-> 0]
    /\ armfailed = {}

ShippedSpec == InitShipped /\ [][FALSE]_vars

(* ---- fair scheduling of the timer path ---- *)

\* As InitServe, with no timer pending: the row is settled or, being
\* 'scheduled', was not armed by the load (schedule_job raised, lines
\* 137-140).
InitRecover ==
    /\ InitServe
    /\ jobs = EmptyMap

\* A process that stays up and whose store takes every write: the clock,
\* the requests, the due timers and the runs of post_tweet_job.
NextLive ==
    \/ Tick
    \/ \E id \in Ids : Fire(id)
    \/ \E id \in Ids : ExecRead(id)
    \/ \E id \in Ids : ExecPublish(id)
    \/ \E id \in Ids : ExecWrite(id, "none")
    \/ \E r \in Reqs, text \in FormTexts, local \in LocalInputs, off \in OffsetInputs :
          CreateInsert(r, text, local, off)
    \/ \E r \in Reqs : CreateArm(r)
    \/ \E r \in Reqs : CreateArmFail(r)
    \/ \E r \in Reqs, tid \in Ids : CancelRead(r, tid)
    \/ \E r \in Reqs : CancelWrite(r)
    \/ \E r \in Reqs : CancelUnschedule(r)
    \/ \E r \in Reqs : Respond(r)

\* The scheduler thread processes due jobs, worker threads run, and every
\* publish call returns.
WorkerFairness ==
    \A id \in Ids :
        /\ WF_vars(Fire(id))
        /\ WF_vars(ExecRead(id))
        /\ WF_vars(ExecPublish(id))
        /\ WF_vars(\E fault \in StoreFaults : ExecWrite(id, fault))

\* A request handler that has started runs to its response.
HandlerFairness ==
    \A r \in Reqs :
        /\ WF_vars(CreateArm(r) \/ CreateArmFail(r))
        /\ WF_vars(CancelWrite(r))
        /\ WF_vars(CancelUnschedule(r))
        /\ WF_vars(Respond(r))

\* The clock runs, and so does the timer path.
TimerFairness == WF_vars(Tick) /\ WorkerFairness

\* The process from its first start, everything scheduled fairly.
LiveSpec == Init /\ [][NextLive]_vars /\ TimerFairness /\ HandlerFairness

\* The whole program, its timer path scheduled fairly.
RecoverSpec == InitRecover /\ [][Next]_vars /\ TimerFairness

(* ======================= the claims ======================= *)

Rows == 1..Len(db)

\* C1: every record is published at most once over any execution, crashes
\* and restarts included.
C1_PublishedAtMostOnce == \A id \in Ids : published[id] <= 1

\* C2: a terminal status is absorbing: once a record's status is posted,
\* failed or cancelled, no step changes it.
C2_TerminalAbsorbing ==
    [][\A id \in Rows : db[id].status \in Terminal => db'[id].status = db[id].status]_vars

\* C3: the executor's write is a compare-and-set: when the record was
\* cancelled after the executor read it as scheduled, the executor's write
\* is skipped and the record stays cancelled.
C3_WriteSkippedWhenCancelled ==
    [][\A id \in Rows :
          (exec[id].pc = "write" /\ exec'[id].pc = "none" /\ db[id].status = "cancelled")
          => db'[id] = db[id]]_vars

\* C4: each record's fields agree with its status: scheduled and cancelled
\* have posted_at, twitter_id and error unset; posted has posted_at and
\* twitter_id set and error unset; failed has posted_at and error set and
\* twitter_id unset.
C4_FieldsConsistent ==
    \A id \in Rows :
        LET row == db[id] IN
        /\ row.status \in {"scheduled", "cancelled"} =>
              row.posted_at = NULL /\ row.twitter_id = NULL /\ row.error = NULL
        /\ row.status = "posted" =>
              row.posted_at # NULL /\ row.twitter_id # NULL /\ row.error = NULL
        /\ row.status = "failed" =>
              row.posted_at # NULL /\ row.error # NULL /\ row.twitter_id = NULL

\* C6: a cancel request that reads a record whose status is no longer
\* scheduled is answered "cannot cancel" and changes neither the table nor
\* the job map.
C6_CancelOfSettledRejected ==
    [][\A r \in Reqs, tid \in Rows :
          (CancelRead(r, tid) /\ db[tid].status # "scheduled")
          => /\ req'[r] = DoneReq(tid, FlashCannotCancel)
             /\ db' = db
             /\ jobs' = jobs]_vars

\* C10: a timer armed by the create path for a fire time already in the
\* past does not fire at once: its fire time lies after the current time.
C10_PastFireTimeDelayed ==
    [][\A r \in Reqs :
          (CreateArm(r) /\ req[r].dt.t < now) => jobs'[req[r].id] > now]_vars

\* C5: post_tweet_job is idempotent: over calls in direct succession on the
\* same id there is at most one publish call and one status transition; a
\* call that finds the status other than scheduled changes nothing, and a
\* call that ends with an outcome leaves the status that outcome names, a
\* 'posted' one after exactly one publish call.
C5_ExecuteIdempotent ==
    /\ [](\A id \in Ids :
             /\ published[id] <= 1
             /\ exec[id].ret = "posted" => published[id] = 1 /\ db[id].status = "posted"
             /\ exec[id].ret = "failed" => db[id].status = "failed"
             /\ exec[id].ret = "noop" /\ HasRow(id) => db[id].status # "scheduled")
    /\ [][\A id \in Rows :
             db[id].status # "scheduled" =>
                 db'[id] = db[id] /\ published'[id] = published[id]]_vars

\* C7: every record whose timer was armed eventually has a terminal status,
\* records created with a time already past included.
C7_ArmedEventuallyTerminal ==
    \A id \in Ids :
        (id \in DOMAIN jobs) ~> (HasRow(id) /\ db[id].status \in Terminal)

\* C8: a start on an empty job map arms one timer for each scheduled record
\* and none for any other record, each no earlier than its scheduled_utc.
C8_LoadArmsScheduled ==
    [][\A fail \in SUBSET Ids : (Start(fail) /\ jobs = EmptyMap) =>
          /\ DOMAIN jobs' = {id \in Rows : db[id].status = "scheduled"}
          /\ \A id \in DOMAIN jobs' : jobs'[id] >= db[id].scheduled_utc]_vars

\* C8 as the code has it: a start on an empty job map arms one timer for
\* each scheduled record whose schedule_job returns, none for a scheduled
\* record whose schedule_job raises and none for any other record, each no
\* earlier than its scheduled_utc.
C8_LoadArmsScheduledUnlessRaised ==
    [][\A fail \in SUBSET Ids : (Start(fail) /\ jobs = EmptyMap) =>
          /\ DOMAIN jobs' = {id \in Rows : db[id].status = "scheduled"} \ fail
          /\ fail = {} => DOMAIN jobs' = {id \in Rows : db[id].status = "scheduled"}
          /\ \A id \in DOMAIN jobs' : jobs'[id] >= db[id].scheduled_utc
          /\ db' = db]_vars

\* C8 witness: the process has just started on a table with a scheduled and
\* a settled record; the first has a timer and the second has none.
C8_Witness ==
    /\ up
    /\ \E id \in Rows, other \in Rows :
          /\ db[id].status = "scheduled"
          /\ db[id].scheduled_utc <= now
          /\ id \in DOMAIN jobs
          /\ jobs[id] = now + PastDueDelay
          /\ db[other].status \in Terminal
          /\ other \notin DOMAIN jobs
    /\ \A id \in Ids : exec[id] = NoExec

Max(a, b) == IF a >= b THEN a ELSE b

\* C9 as stated: the fire time load_and_schedule_all gives a scheduled
\* record is max(scheduled_utc, now + delay).
C9_FireTimeIsMax ==
    [][\A fail \in SUBSET Ids : Start(fail) =>
          \A id \in Rows \ fail : db[id].status = "scheduled" =>
              jobs'[id] = Max(db[id].scheduled_utc, now + PastDueDelay)]_vars

\* C9 amended: the fire time is now + delay for a record that is due or
\* past due, and the record's own scheduled_utc for a record due later, also
\* when that is sooner than now + delay.
C9_FireTimeDelaysOnlyDue ==
    [][\A fail \in SUBSET Ids : Start(fail) =>
          \A id \in Rows \ fail : db[id].status = "scheduled" =>
              /\ db[id].scheduled_utc <= now => jobs'[id] = now + PastDueDelay
              /\ db[id].scheduled_utc > now => jobs'[id] = db[id].scheduled_utc]_vars

\* C9 witness: the process has just started; a past-due record fires at
\* now + delay and a record due within the delay fires at its own time.
C9_Witness ==
    /\ up
    /\ \E id \in Rows, soon \in Rows :
          /\ db[id].scheduled_utc < now
          /\ id \in DOMAIN jobs
          /\ jobs[id] = now + PastDueDelay
          /\ db[soon].scheduled_utc > now
          /\ db[soon].scheduled_utc < now + PastDueDelay
          /\ soon \in DOMAIN jobs
          /\ jobs[soon] = db[soon].scheduled_utc

\* C11: a cancel of a scheduled record that no delivery has read leaves the
\* record cancelled and without a timer; from then on the record stays
\* cancelled and is not published; removing the timer of an id that has
\* none changes nothing and the cancel still succeeds.
C11_CancelSettlesRecord ==
    /\ [][\A r \in Reqs :
             /\ (CancelWrite(r) /\ exec[req[r].id].pc \in {"none", "wait"})
                => db'[req[r].id].status = "cancelled"
             /\ CancelUnschedule(r)
                => /\ req[r].id \notin DOMAIN jobs'
                   /\ req'[r] = DoneReq(req[r].id, FlashCancelled)
                   /\ req[r].id \notin DOMAIN jobs => jobs' = jobs]_vars
    /\ [][\A id \in Rows :
             (db[id].status = "cancelled" /\ exec[id].pc \in {"none", "wait"})
             => /\ db'[id] = db[id]
                /\ published'[id] = published[id]
                /\ exec'[id].pc \in {"none", "wait"}]_vars

\* C11 witness: a cancel has finished on a record that was never published;
\* its timer fired after the cancel's write and the delivery did nothing.
C11_Witness ==
    \E r \in Reqs :
        /\ req[r].pc = "done"
        /\ req[r].flash = FlashCancelled
        /\ db[req[r].id].status = "cancelled"
        /\ req[r].id \notin DOMAIN jobs
        /\ exec[req[r].id] = [pc |-> "none", res |-> NULL, ret |-> "noop"]
        /\ published[req[r].id] = 0

\* C12: a run of post_tweet_job on a scheduled record that returns, with no
\* cancel beside it, leaves status posted, posted_at set, twitter_id the
\* provider's id and error unset when the publish call returned, and status
\* failed, posted_at and error set and twitter_id unset when it raised.
C12_OutcomeRecorded ==
    [][\A id \in Rows :
          (exec[id].pc = "write" /\ exec'[id].pc = "none" /\ exec'[id].ret # "raised") =>
              LET o == exec[id].res[1]
                  row == db'[id]
              IN  IF o.ok
                  THEN /\ row.status = "posted"
                       /\ row.posted_at = Some(now)
                       /\ row.twitter_id = Some(o.val)
                       /\ row.error = NULL
                       /\ exec'[id].ret = "posted"
                  ELSE /\ row.status = "failed"
                       /\ row.posted_at = Some(now)
                       /\ row.error = Some(o.val)
                       /\ row.twitter_id = NULL
                       /\ exec'[id].ret = "failed"]_vars

\* C13: a rejected request changes nothing: a create with empty text, with
\* no datetime or with an unparseable datetime, and a cancel of an unknown
\* id, leave the table and the job map as they were, and are answered with
\* their message (the create: when its offset is an integer).
C13_RejectedChangesNothing ==
    [][/\ \A r \in Reqs, text \in FormTexts, local \in LocalInputs, off \in OffsetInputs :
             (CreateInsert(r, text, local, off) /\ (text \in {"", " "} \/ local.kind # "iso"))
             => /\ db' = db
                /\ jobs' = jobs
                /\ req'[r].pc = "done"
                /\ ~OffsetRaises(off) =>
                      req'[r].flash =
                         IF text \in {"", " "} \/ local.kind = "missing"
                         THEN FlashRequired ELSE FlashInvalid
       /\ \A r \in Reqs, tid \in Ids \ Rows :
             CancelRead(r, tid)
             => /\ db' = db
                /\ jobs' = jobs
                /\ req'[r] = DoneReq(tid, FlashNotFound)]_vars

\* C13 witness: a create with an unparseable datetime was rejected on a
\* table that holds a record with a timer.
C13_Witness ==
    \E r \in Reqs :
        /\ req[r].pc = "done"
        /\ req[r].flash = FlashInvalid
        /\ Len(db) >= 1
        /\ DOMAIN jobs # {}

\* C14: the instant a create stores and arms is the local time minus the
\* offset in minutes, as UTC; with offset 0 it is the local time itself.
C14_UtcIsLocalMinusOffset ==
    [][\A r \in Reqs, text \in FormTexts, local \in LocalInputs, off \in OffsetInputs :
          (CreateInsert(r, text, local, off) /\ Len(db') = Len(db) + 1)
          => LET new == db'[Len(db')] IN
             /\ off.kind = "int"
                => /\ StoredTime(new.scheduled_utc) = [t |-> local.t - off.n * 60, tz |-> "UTC"]
                   /\ req'[r].dt = [t |-> local.t - off.n * 60, tz |-> "UTC"]
                   /\ off.n = 0 => new.scheduled_utc = local.t
             /\ off.kind = "missing" => new.scheduled_utc = local.t]_vars

\* C14 witness: a create has stored a record and is about to arm its timer.
C14_Witness ==
    \E r \in Reqs :
        /\ req[r].pc = "arm"
        /\ db[req[r].id].scheduled_utc = req[r].dt.t
        /\ req[r].dt.t > 0

\* C15: at most one run of post_tweet_job is between its read of the row
\* and its write, over all records, and it is the holder of scheduler_lock.
C15_MutualExclusion ==
    \A a \in Ids, b \in Ids :
        (exec[a].pc \in {"publish", "write"} /\ exec[b].pc \in {"publish", "write"})
        => (a = b /\ lock = a)

\* C15 witness: two timers have fired; one run is publishing and the other
\* waits for the lock.
C15_Witness ==
    \E a \in Ids, b \in Ids :
        /\ exec[a].pc = "publish"
        /\ exec[b].pc = "wait"
        /\ lock = a

\* C16: no publish call for a record is made before the record's
\* scheduled_utc, whether its timer was armed by a create or by a start.
C16_NoEarlyPublish ==
    [][\A id \in Rows :
          published'[id] > published[id] => now >= db[id].scheduled_utc]_vars

\* C16 witness: a record created for a later time was published at its
\* scheduled_utc, by the run of the timer its create armed.
C16_Witness ==
    \E id \in Rows :
        /\ published[id] = 1
        /\ exec[id].ret = "posted"
        /\ db[id].status = "posted"
        /\ db[id].scheduled_utc > 0
        /\ db[id].posted_at = Some(db[id].scheduled_utc)
        /\ crashes = 0

\* The running process has observed record `id`: its load has run, and no
\* create of the record is still before its schedule_job call.
Observed(id) == up /\ \A r \in Reqs : ~(req[r].pc = "arm" /\ req[r].id = id)

\* C17 as stated: in every state a timer for a record exists if and only if
\* the record's status is scheduled and the process has observed it.
C17_TimerIffScheduled ==
    \A id \in Rows :
        (id \in DOMAIN jobs) <=> (db[id].status = "scheduled" /\ Observed(id))

\* C17 amended: a timer exists only for a record the process has observed
\* and whose status is scheduled or cancelled; a posted or failed record
\* never has a timer.  A cancelled record has a timer from a cancel's write
\* to its disarming and, when its create armed the timer after a cancel had
\* finished, until that timer fires.
C17_TimerOnlyIfUnsettled ==
    \A id \in DOMAIN jobs :
        /\ HasRow(id)
        /\ Observed(id)
        /\ db[id].status \in {"scheduled", "cancelled"}

\* C17 witness: a create has armed the timer of a record that a cancel,
\* finished in between, had cancelled; no cancel is left to disarm it.  The
\* timer of another record has fired and its record is still scheduled.
C17_Witness ==
    \E r \in Reqs, other \in Rows :
        /\ req[r] = DoneReq(req[r].id, FlashScheduled)
        /\ req[r].id \in DOMAIN jobs
        /\ db[req[r].id].status = "cancelled"
        /\ \A q \in Reqs : req[q].pc \notin {"write", "unschedule"}
        /\ db[other].status = "scheduled"
        /\ exec[other].pc = "publish"
        /\ other \notin DOMAIN jobs

\* C18: when arming fails in a create, the inserted record stays scheduled
\* and without a timer and nothing else changes; the next start arms a timer
\* for every scheduled record whose arming had failed, and a record so armed
\* is delivered: it gets a terminal status.
C18_ArmFailureHealedByRestart ==
    /\ [][\A r \in Reqs :
             CreateArmFail(r)
             => /\ db' = db
                /\ jobs' = jobs
                /\ db'[req[r].id].status = "scheduled"
                /\ req[r].id \notin DOMAIN jobs'
                /\ req'[r].flash = FlashDelayed]_vars
    /\ [][\A fail \in SUBSET Ids : Start(fail) =>
             \A id \in armfailed : db[id].status = "scheduled" =>
                 id \in DOMAIN jobs' /\ jobs'[id] > now]_vars
    /\ \A id \in Ids :
          (id \in armfailed /\ up /\ id \in DOMAIN jobs)
          ~> (HasRow(id) /\ db[id].status \in Terminal)

\* C18 as the code has it: when arming fails in a create, the inserted
\* record stays scheduled and without a timer and nothing else changes; the
\* next start calls schedule_job for it when it is still scheduled: when the
\* call returns the record has a timer after the current time, and its
\* delivery follows (the record gets a terminal status, unless the process
\* stops first or the run's writes to the store raise); when the call raises
\* again the record stays scheduled without a timer, and the other scheduled
\* records are armed all the same.
C18_ArmFailureHealedWhenArmed ==
    /\ [][\A r \in Reqs :
             CreateArmFail(r)
             => /\ db' = db
                /\ jobs' = jobs
                /\ db'[req[r].id].status \in {"scheduled", "cancelled"}
                /\ req[r].id \notin DOMAIN jobs'
                /\ req'[r].flash = FlashDelayed]_vars
    /\ [][\A fail \in SUBSET Ids : Start(fail) =>
             /\ db' = db
             /\ \A id \in Rows : db[id].status = "scheduled" =>
                   IF id \in fail THEN id \notin DOMAIN jobs'
                   ELSE id \in DOMAIN jobs' /\ jobs'[id] > now]_vars
    /\ \A id \in Ids :
          (id \in armfailed /\ up /\ id \in DOMAIN jobs)
          ~> \/ HasRow(id) /\ db[id].status \in Terminal
             \/ ~up
             \/ exec[id].pc = "none" /\ exec[id].ret = "raised"

\* C18 witness: the arming of a record's timer failed in its create; the
\* process was started again, armed the timer, and the record was posted.
C18_Witness ==
    \E id \in armfailed :
        /\ crashes > 0
        /\ up
        /\ db[id].status = "posted"
        /\ published[id] = 1
        /\ exec[id].ret = "posted"

\* C19: a record becomes failed only when its publish call raised.
C19_FailedOnlyAfterPublishError ==
    [][\A id \in Rows :
          (db'[id].status = "failed" /\ db[id].status # "failed")
          => (exec[id].pc = "write" /\ ~exec[id].res[1].ok)]_vars

\* C20: no step removes a record or changes the text or scheduled_utc of an
\* existing record; the steps of post_tweet_job(id) and of cancel(id) leave
\* every other record as it was, and their reads and the publish call leave
\* the whole table as it was.
C20_Frame ==
    [][/\ Len(db') >= Len(db)
       /\ \A id \in Rows :
             /\ db'[id].text = db[id].text
             /\ db'[id].scheduled_utc = db[id].scheduled_utc
       /\ \/ db' = db
          \/ /\ \A id \in Ids :
                   /\ (\E fault \in StoreFaults : ExecWrite(id, fault))
                      => \A other \in Rows \ {id} : db'[other] = db[other]
                   /\ ~(Fire(id) \/ ExecRead(id) \/ ExecPublish(id))
             /\ \A r \in Reqs :
                   /\ CancelWrite(r)
                      => \A other \in Rows \ {req[r].id} : db'[other] = db[other]
                   /\ ~((\E tid \in Ids : CancelRead(r, tid)) \/ CancelUnschedule(r))]_vars

\* C20 witness: a run of post_tweet_job has written one record and a cancel
\* another.
C20_Witness ==
    \E id \in Rows, r \in Reqs :
        /\ exec[id].ret \in {"posted", "failed"}
        /\ db[id].status = exec[id].ret
        /\ req[r] = DoneReq(req[r].id, FlashCancelled)
        /\ req[r].id # id
        /\ db[req[r].id].status = "cancelled"
        /\ db[req[r].id].posted_at = NULL

====
